---- MODULE Spec2Model ----
(***************************************************************************)
(* Model of the multi-track well-log chart, src/src/components/            *)
(* WellDataChart.tsx.  The component is a function of its `data` prop: it  *)
(* sorts the records by depth, derives the depth/DT/GR ranges, assigns a   *)
(* palette colour to every rock type and lays out gridlines, bands,        *)
(* polylines, markers and a legend.  Coordinates are JavaScript numbers;   *)
(* they are modelled as exact fractions extended with NaN and +-Infinity,  *)
(* so that a division by a zero span is visible in the layout.  Further    *)
(* down come the chat endpoint of the server (SpecServer), the App with    *)
(* its well list and well data (SpecApp) and the chat components           *)
(* (SpecChat); each specification leaves the others' variables at rest.    *)
(***************************************************************************)
EXTENDS Integers, Sequences, FiniteSets, TLC

VARIABLES data, dataNull, out, prevData, prevOut, renders

\* two calls of the component taken statement by statement
VARIABLES callPc, callGiven, callArray, frames, callResult

chartVars == <<data, dataNull, out, prevData, prevOut, renders>>

callVars == <<callPc, callGiven, callArray, frames, callResult>>

\* the chat endpoint of the server: its environment, the position of the
\* handler of one request, the provider calls it made and its response
VARIABLES geminiApiKey, openaiApiKey, serverPc, providerCalls, providerResults,
          chatResponse, handled

serverVars == <<geminiApiKey, openaiApiKey, serverPc, providerCalls,
                providerResults, chatResponse, handled>>

\* the App component and the WellDashboard it renders: the wells on the
\* server, the App state, the fetchWells and well-data requests in flight,
\* the position of initializeMockData, and what the user selected last
VARIABLES serverWells, wells, selectedWellId, loading, wellsFetches, issued,
          initPc, posted, userSelected, clicks, appWellData, dashWellData,
          appFetch, dashFetch

appVars == <<serverWells, wells, selectedWellId, loading, wellsFetches, issued,
             initPc, posted, userSelected, clicks, appWellData, dashWellData,
             appFetch, dashFetch>>

\* a chat component (ChatBot or ChatPanel): its state, the requests it has
\* in flight and the number of times its send handler was invoked
VARIABLES chatComponent, apiKey, messages, input, chatLoading, inFlight, attempts

chatVars == <<chatComponent, apiKey, messages, input, chatLoading, inFlight, attempts>>

hostVars == <<serverVars, appVars, chatVars>>

vars == <<chartVars, callVars, hostVars>>

(***************************************************************************)
(* Bounds of the model.                                                    *)
(***************************************************************************)
MaxLen == 1
MaxDepth == 2
MaxVal == 1
MaxWide == 12
MaxRenders == 2
MaxSwap == 2
MaxCallLen == 3
MaxRequests == 2
MaxStored == 1
MaxClicks == 2
MaxRefreshes == 1
MaxAttempts == 4

(***************************************************************************)
(* JavaScript numbers: finite fractions n/d (d > 0, lowest terms), NaN and *)
(* the two infinities (n is the sign).                                     *)
(***************************************************************************)
Abs(x) == IF x < 0 THEN -x ELSE x

Sign(x) == IF x < 0 THEN -1 ELSE IF x > 0 THEN 1 ELSE 0

RECURSIVE GCD(_, _)
GCD(a, b) == IF b = 0 THEN a ELSE GCD(b, a % b)

NaN == [k |-> "nan", n |-> 0, d |-> 1]

Inf(s) == [k |-> "inf", n |-> s, d |-> 1]

Frac(n, d) ==
  LET g == GCD(Abs(n), Abs(d))
      s == IF d < 0 THEN -1 ELSE 1
  IN [k |-> "fin", n |-> (s * n) \div g, d |-> (s * d) \div g]

Int2Num(i) == [k |-> "fin", n |-> i, d |-> 1]

IsFinite(x) == x.k = "fin"

NumAdd(x, y) ==
  IF x.k = "nan" \/ y.k = "nan" THEN NaN
  ELSE IF x.k = "inf" /\ y.k = "inf" THEN (IF x.n = y.n THEN x ELSE NaN)
  ELSE IF x.k = "inf" THEN x
  ELSE IF y.k = "inf" THEN y
  ELSE Frac(x.n * y.d + y.n * x.d, x.d * y.d)

NumNeg(x) == IF x.k = "nan" THEN NaN ELSE [x EXCEPT !.n = -x.n]

NumSub(x, y) == NumAdd(x, NumNeg(y))

NumMul(x, y) ==
  IF x.k = "nan" \/ y.k = "nan" THEN NaN
  ELSE IF x.k = "inf" \/ y.k = "inf"
       THEN (IF x.n = 0 \/ y.n = 0 THEN NaN ELSE Inf(Sign(x.n) * Sign(y.n)))
  ELSE Frac(x.n * y.n, x.d * y.d)

NumDiv(x, y) ==
  IF x.k = "nan" \/ y.k = "nan" THEN NaN
  ELSE IF x.k = "inf" THEN (IF y.k = "inf" THEN NaN
                            ELSE Inf(x.n * (IF y.n < 0 THEN -1 ELSE 1)))
  ELSE IF y.k = "inf" THEN Int2Num(0)
  ELSE IF y.n = 0 THEN (IF x.n = 0 THEN NaN ELSE Inf(Sign(x.n)))
  ELSE Frac(x.n * y.d, x.d * y.n)

\* x < y as JavaScript compares numbers: every comparison with NaN is false
NumLt(x, y) ==
  IF x.k = "nan" \/ y.k = "nan" THEN FALSE
  ELSE IF x.k = "inf" THEN x.n < 0 /\ ~(y.k = "inf" /\ y.n < 0)
  ELSE IF y.k = "inf" THEN y.n > 0
  ELSE x.n * y.d < y.n * x.d

NumGt(x, y) == NumLt(y, x)

NumLe(x, y) ==
  IF x.k = "nan" \/ y.k = "nan" THEN FALSE ELSE ~NumLt(y, x)

(***************************************************************************)
(* WellDataChart: constants of the plot (lines 40-55, 71).                 *)
(***************************************************************************)
colors == << "#8b5cf6", "#ec4899", "#f59e0b", "#10b981", "#3b82f6",
             "#ef4444", "#14b8a6", "#f97316", "#a855f7", "#06b6d4" >>

fallbackFill == "#64748b"

chartHeight == 600

chartWidth == 900

padding == [top |-> 40, right |-> 40, bottom |-> 60, left |-> 80]

plotHeight == chartHeight - padding.top - padding.bottom

plotWidth == chartWidth - padding.left - padding.right

columnWidth == Frac(plotWidth, 3)

depthTicks == 10

\* barHeight > 20
labelMinHeight == 20

\* columnWidth * f, for the decimal factor f = tenths / 10
ColumnFraction(tenths) == NumMul(columnWidth, Frac(tenths, 10))

(***************************************************************************)
(* Normalizer: the stable sort by depth and the ranges (lines 23-35).      *)
(***************************************************************************)
\* the comparator of a descending sort
compareDepthDescending(a, b) == b.depth - a.depth

\* the comparator of the sort
compareDepth(a, b) == a.depth - b.depth

\* r goes before the elements that compare equal to it
InsertBeforeEqual(s, r) ==
  LET k == Cardinality({i \in 1..Len(s) : compareDepth(s[i], r) < 0})
  IN SubSeq(s, 1, k) \o <<r>> \o SubSeq(s, k + 1, Len(s))

\* r goes after every element that does not compare greater than it
InsertByDepth(s, r) ==
  LET k == Cardinality({i \in 1..Len(s) : compareDepth(s[i], r) <= 0})
  IN SubSeq(s, 1, k) \o <<r>> \o SubSeq(s, k + 1, Len(s))

RECURSIVE SortFrom(_, _, _)
SortFrom(d, i, acc) ==
  IF i > Len(d) THEN acc ELSE SortFrom(d, i + 1, InsertByDepth(acc, d[i]))

\* the records left in input order
sortedDataUnsorted(d) == d

sortedDataOf(d) == SortFrom(d, 1, <<>>)

\* the minimum folded from a seed of 0
RECURSIVE MathMinSeeded(_)
MathMinSeeded(s) ==
  IF Len(s) = 0 THEN 0
  ELSE LET m == MathMinSeeded(Tail(s)) IN IF s[1] < m THEN s[1] ELSE m

RECURSIVE MathMin(_)
MathMin(s) ==
  IF Len(s) = 1 THEN s[1]
  ELSE LET m == MathMin(Tail(s)) IN IF s[1] < m THEN s[1] ELSE m

RECURSIVE MathMax(_)
MathMax(s) ==
  IF Len(s) = 1 THEN s[1]
  ELSE LET m == MathMax(Tail(s)) IN IF s[1] > m THEN s[1] ELSE m

Depths(s) == [i \in 1..Len(s) |-> s[i].depth]

DTs(s) == [i \in 1..Len(s) |-> s[i].DT]

GRs(s) == [i \in 1..Len(s) |-> s[i].GR]

(***************************************************************************)
(* Colour assignment (lines 37-46).                                        *)
(***************************************************************************)
InSeq(x, s) == \E i \in 1..Len(s) : s[i] = x

\* Array.from(new Set(...)): the distinct elements in first-seen order
RECURSIVE UniqueFrom(_, _, _)
UniqueFrom(s, i, acc) ==
  IF i > Len(s) THEN acc
  ELSE UniqueFrom(s, i + 1, IF InSeq(s[i], acc) THEN acc ELSE Append(acc, s[i]))

rockTypesOf(sorted) ==
  UniqueFrom([i \in 1..Len(sorted) |-> sorted[i].rockComposition], 1, <<>>)

\* the wraparound taken one colour too early
paletteColorShort(i) == colors[(i % (Len(colors) - 1)) + 1]

\* the colour given to the rock type at 0-based index i
paletteColor(i) == colors[(i % Len(colors)) + 1]

\* colorMap is a plain object ({}): the key "__proto__" names the inherited
\* accessor of Object.prototype, not an own property.  Storing a string
\* under it is ignored, and reading it gives the prototype object, which an
\* attribute shows as "[object Object]".
ProtoKey == "__proto__"

ObjectPrototype == "[object Object]"

Undefined == "undefined"

\* colorMap[rock] = value
SetProperty(m, rock, value) ==
  IF rock = ProtoKey THEN m
  ELSE [r \in (DOMAIN m) \cup {rock} |-> IF r = rock THEN value ELSE m[r]]

\* colorMap[rock]
GetProperty(m, rock) ==
  IF rock = ProtoKey THEN ObjectPrototype
  ELSE IF rock \in DOMAIN m THEN m[rock] ELSE Undefined

RECURSIVE AssignColors(_, _, _)
AssignColors(rocks, i, m) ==
  IF i > Len(rocks) THEN m
  ELSE AssignColors(rocks, i + 1, SetProperty(m, rocks[i], paletteColor(i - 1)))

colorMapOf(rocks) == AssignColors(rocks, 1, <<>>)

(***************************************************************************)
(* Scale Builder (lines 57-72).                                            *)
(***************************************************************************)
\* the depth scale without the top padding
scaleDepthNoPadding(depth, minDepth, depthRange) ==
  NumMul(NumDiv(NumSub(depth, Int2Num(minDepth)), Int2Num(depthRange)),
         Int2Num(plotHeight))

scaleDepth(depth, minDepth, depthRange) ==
  NumAdd(Int2Num(padding.top),
         NumMul(NumDiv(NumSub(depth, Int2Num(minDepth)), Int2Num(depthRange)),
                Int2Num(plotHeight)))

scaleDT(value, minDT, maxDT) ==
  NumAdd(NumAdd(Int2Num(padding.left), ColumnFraction(1)),
         NumMul(NumDiv(Int2Num(value - minDT), Int2Num(maxDT - minDT)),
                ColumnFraction(8)))

scaleGR(value, minGR, maxGR) ==
  NumAdd(NumAdd(Int2Num(padding.left), ColumnFraction(21)),
         NumMul(NumDiv(Int2Num(value - minGR), Int2Num(maxGR - minGR)),
                ColumnFraction(8)))

\* a tick interval of a ninth of the span, which puts the last tick below the plot
depthTickIntervalWide(depthRange) ==
  NumDiv(Int2Num(depthRange), Int2Num(depthTicks - 1))

depthTickIntervalOf(depthRange) == NumDiv(Int2Num(depthRange), Int2Num(depthTicks))

(***************************************************************************)
(* Track Compositor (lines 74-290): the elements of the returned layout.   *)
(***************************************************************************)
\* Math.round of a JavaScript number
MathRound(x) ==
  IF x.k = "fin" THEN Int2Num((2 * x.n + x.d) \div (2 * x.d)) ELSE x

\* depth grid lines and labels, i = 0 .. depthTicks
gridLinesOf(minDepth, depthRange) ==
  [j \in 1..(depthTicks + 1) |->
     LET depth == NumAdd(Int2Num(minDepth),
                         NumMul(Int2Num(j - 1), depthTickIntervalOf(depthRange)))
     IN [depth |-> depth,
         y     |-> scaleDepth(depth, minDepth, depthRange),
         label |-> MathRound(depth)]]

\* the x positions of the two column dividers
columnDividers ==
  << NumAdd(Int2Num(padding.left), columnWidth),
     NumAdd(Int2Num(padding.left), NumMul(columnWidth, Int2Num(2))) >>

\* the x positions of the min and max axis labels of the DT and GR columns
dtAxisLabels ==
  [minX |-> NumAdd(Int2Num(padding.left), ColumnFraction(11)),
   maxX |-> NumAdd(Int2Num(padding.left), ColumnFraction(19))]

grAxisLabels ==
  [minX |-> NumAdd(Int2Num(padding.left), ColumnFraction(21)),
   maxX |-> NumAdd(Int2Num(padding.left), ColumnFraction(29))]

\* colorMap[rock] || fallback
fillOf(colorMap, rock) ==
  LET c == GetProperty(colorMap, rock)
  IN IF c = Undefined THEN fallbackFill ELSE c

\* the label is shown from 20 pixels on
showLabelAtThreshold(barHeight) == NumLe(Int2Num(labelMinHeight), barHeight)

\* {barHeight > 20 && <text>}
showLabel(barHeight) == NumGt(barHeight, Int2Num(labelMinHeight))

\* one bar per run of consecutive records of the same rock type
rockBarsMerged(sorted, minDepth, depthRange, colorMap) ==
  LET keep == SelectSeq([i \in 1..Len(sorted) |-> i],
                        LAMBDA i : \/ i = 1
                                   \/ sorted[i].rockComposition
                                        # sorted[i - 1].rockComposition)
  IN [k \in 1..Len(keep) |->
        LET point     == sorted[keep[k]]
            y1        == scaleDepth(Int2Num(point.depth), minDepth, depthRange)
            y2        == IF k + 1 <= Len(keep)
                         THEN scaleDepth(Int2Num(sorted[keep[k + 1]].depth),
                                         minDepth, depthRange)
                         ELSE Int2Num(chartHeight - padding.bottom)
            barHeight == NumSub(y2, y1)
        IN [rock   |-> point.rockComposition,
            x      |-> NumAdd(Int2Num(padding.left), ColumnFraction(1)),
            y      |-> y1,
            width  |-> ColumnFraction(8),
            height |-> barHeight,
            fill   |-> fillOf(colorMap, point.rockComposition),
            label  |-> showLabel(barHeight)]]

\* bars whose last one runs to the bottom of the svg, over the padding
rockBarsToChartEdge(sorted, minDepth, depthRange, colorMap) ==
  [i \in 1..Len(sorted) |->
     LET point     == sorted[i]
         y1        == scaleDepth(Int2Num(point.depth), minDepth, depthRange)
         y2        == IF i + 1 <= Len(sorted)
                      THEN scaleDepth(Int2Num(sorted[i + 1].depth), minDepth, depthRange)
                      ELSE Int2Num(chartHeight)
         barHeight == NumSub(y2, y1)
     IN [rock   |-> point.rockComposition,
         x      |-> NumAdd(Int2Num(padding.left), ColumnFraction(1)),
         y      |-> y1,
         width  |-> ColumnFraction(8),
         height |-> barHeight,
         fill   |-> fillOf(colorMap, point.rockComposition),
         label  |-> showLabel(barHeight)]]

\* Rock Composition bars: one <g> per element of sortedData
rockBarsOf(sorted, minDepth, depthRange, colorMap) ==
  [i \in 1..Len(sorted) |->
     LET point     == sorted[i]
         y1        == scaleDepth(Int2Num(point.depth), minDepth, depthRange)
         y2        == IF i + 1 <= Len(sorted)
                      THEN scaleDepth(Int2Num(sorted[i + 1].depth), minDepth, depthRange)
                      ELSE Int2Num(chartHeight - padding.bottom)
         barHeight == NumSub(y2, y1)
     IN [rock   |-> point.rockComposition,
         x      |-> NumAdd(Int2Num(padding.left), ColumnFraction(1)),
         y      |-> y1,
         width  |-> ColumnFraction(8),
         height |-> barHeight,
         fill   |-> fillOf(colorMap, point.rockComposition),
         label  |-> showLabel(barHeight)]]

\* the DT polyline; the DT markers have the same coordinates
dtPointsOf(sorted, minDepth, depthRange, minDT, maxDT) ==
  [i \in 1..Len(sorted) |->
     [x |-> scaleDT(sorted[i].DT, minDT, maxDT),
      y |-> scaleDepth(Int2Num(sorted[i].depth), minDepth, depthRange)]]

grPointsOf(sorted, minDepth, depthRange, minGR, maxGR) ==
  [i \in 1..Len(sorted) |->
     [x |-> scaleGR(sorted[i].GR, minGR, maxGR),
      y |-> scaleDepth(Int2Num(sorted[i].depth), minDepth, depthRange)]]

\* the legend coloured by position, counting the rock types from 1
legendByPosition(rocks, colorMap) ==
  [i \in 1..Len(rocks) |-> [rock |-> rocks[i], color |-> paletteColor(i)]]

legendOf(rocks, colorMap) ==
  [i \in 1..Len(rocks) |-> [rock |-> rocks[i], color |-> GetProperty(colorMap, rocks[i])]]

\* the "No data to display" placeholder
EmptyInput == [kind |-> "EmptyInput"]

\* the chart of a non-empty dataset (lines 23-290)
LayoutOf(d) ==
  LET sortedData == sortedDataOf(d)
      minDepth   == MathMin(Depths(sortedData))
      maxDepth   == MathMax(Depths(sortedData))
      depthRange == maxDepth - minDepth
      minDT      == MathMin(DTs(sortedData))
      maxDT      == MathMax(DTs(sortedData))
      minGR      == MathMin(GRs(sortedData))
      maxGR      == MathMax(GRs(sortedData))
      rockTypes  == rockTypesOf(sortedData)
      colorMap   == colorMapOf(rockTypes)
  IN [kind       |-> "Layout",
      sortedData |-> sortedData,
      minDepth   |-> minDepth,
      maxDepth   |-> maxDepth,
      depthRange |-> depthRange,
      minDT      |-> minDT,
      maxDT      |-> maxDT,
      minGR      |-> minGR,
      maxGR      |-> maxGR,
      rockTypes  |-> rockTypes,
      colorMap   |-> colorMap,
      gridLines  |-> gridLinesOf(minDepth, depthRange),
      rockBars   |-> rockBarsOf(sortedData, minDepth, depthRange, colorMap),
      dtPoints   |-> dtPointsOf(sortedData, minDepth, depthRange, minDT, maxDT),
      dtMarkers  |-> dtPointsOf(sortedData, minDepth, depthRange, minDT, maxDT),
      grPoints   |-> grPointsOf(sortedData, minDepth, depthRange, minGR, maxGR),
      grMarkers  |-> grPointsOf(sortedData, minDepth, depthRange, minGR, maxGR),
      legend     |-> legendOf(rockTypes, colorMap)]

\* a chart drawn from no records at all: what skipping the empty check gives
EmptyLayout ==
  [kind |-> "Layout", sortedData |-> <<>>, rockTypes |-> <<>>,
   rockBars |-> <<>>, dtPoints |-> <<>>, dtMarkers |-> <<>>,
   grPoints |-> <<>>, grMarkers |-> <<>>, legend |-> <<>>]

WellDataChartNoEmptyCheck(d, isNull) ==
  IF isNull THEN EmptyInput
  ELSE IF Len(d) = 0 THEN EmptyLayout ELSE LayoutOf(d)

\* the component: !data || data.length === 0 returns the placeholder
WellDataChart(d, isNull) ==
  IF isNull \/ Len(d) = 0 THEN EmptyInput ELSE LayoutOf(d)

(***************************************************************************)
(* The datasets the host passes as the `data` prop: every sequence of at   *)
(* most MaxLen records over a small record set, and longer datasets of up  *)
(* to MaxWide records built from regular depth, rock and value patterns    *)
(* (ascending, descending, equal and pairwise equal depths, and closely    *)
(* spaced depths above one deep record, which give bands of 15, 20 and 25  *)
(* pixels; one, three or all distinct rock types; constant or              *)
(* non-monotonic DT and GR).  A rock type is any string of the uploaded    *)
(* sheet, the string "__proto__" too.                                      *)
(***************************************************************************)
RockNames == << "Sandstone", "Shale", "Limestone", "Dolomite", "Siltstone",
                "Mudstone", "Chalk", "Anhydrite", "Halite", "Coal",
                "Granite", "Basalt", "Marl", "Gypsum" >>

rockName(k) == RockNames[((k - 1) % Len(RockNames)) + 1]

Records ==
  [depth : 0..MaxDepth, rockComposition : {rockName(1), ProtoKey},
   DT : 0..MaxVal, GR : 0..MaxVal]

SmallDatasets == UNION {[1..n -> Records] : n \in 0..MaxLen}

DepthPatterns == {"asc", "desc", "flat", "pairs", "thin"}

ValuePatterns == {"vary", "flat"}

patternDepth(p, i, n) ==
  CASE p = "asc"   -> 100 + 10 * i
    [] p = "desc"  -> 100 + 10 * (n - i)
    [] p = "flat"  -> 100
    [] p = "pairs" -> 100 + 25 * ((i + 1) \div 2)
    [] p = "thin"  -> IF i = n THEN 200 ELSE 100 + (3 + (n % 3)) * (i - 1)

patternValue(p, i, m) == IF p = "vary" THEN 50 + ((i * 7) % m) ELSE 50

\* n records; the rock types repeat with period c
WideDataset(n, c, dp, ap, bp) ==
  [i \in 1..n |->
     [depth |-> patternDepth(dp, i, n),
      rockComposition |-> rockName(((i - 1) % c) + 1),
      DT |-> patternValue(ap, i, 5),
      GR |-> patternValue(bp, i, 4)]]

WideDatasets ==
  {WideDataset(n, c, dp, ap, bp) :
     n \in (MaxLen + 1)..MaxWide, c \in {1, 3, MaxWide},
     dp \in DepthPatterns, ap \in ValuePatterns, bp \in ValuePatterns}

Datasets == SmallDatasets \cup WideDatasets

\* no render has happened before the first one
NoRender == [kind |-> "None"]

SwapAdjacent(d, i) ==
  [j \in 1..Len(d) |-> IF j = i THEN d[i + 1] ELSE IF j = i + 1 THEN d[i] ELSE d[j]]

(***************************************************************************)
(* The state machine: the host mounts the chart with a dataset (or with a  *)
(* null prop) and re-renders it, with the same array or with the same      *)
(* records in another order (two neighbours among the first MaxSwap + 1    *)
(* exchanged, or the first record moved to the end).  out is what the      *)
(* latest call returned, prevData and prevOut are the input and output of  *)
(* the call before it.                                                     *)
(***************************************************************************)
\* an environment variable that is not set, and one set to the string chars
UnsetKey == [set |-> FALSE, chars |-> <<>>]

EnvKey(chars) == [set |-> TRUE, chars |-> chars]

\* no response has been sent
NoResponse == [status |-> 0]

\* the chat endpoint has no request
ServerIdle ==
  /\ geminiApiKey = UnsetKey
  /\ openaiApiKey = UnsetKey
  /\ serverPc = "idle"
  /\ providerCalls = <<>>
  /\ providerResults = <<>>
  /\ chatResponse = NoResponse
  /\ handled = 0

\* the number of wells initializeMockData creates
mockWells == 4

\* the most wells the server can come to hold
MaxWells == MaxStored + mockWells + MaxRefreshes

\* the ids of the wells, in the order of their creation; 0 stands for null
WellIds == 1..MaxWells

NoFetches == [w \in WellIds |-> 0]

\* the App is not mounted
AppIdle ==
  /\ serverWells = 0
  /\ wells = 0
  /\ selectedWellId = 0
  /\ loading = FALSE
  /\ wellsFetches = {}
  /\ issued = 0
  /\ initPc = "done"
  /\ posted = 0
  /\ userSelected = 0
  /\ clicks = 0
  /\ appWellData = 0
  /\ dashWellData = 0
  /\ appFetch = NoFetches
  /\ dashFetch = NoFetches

\* no chat component is mounted
ChatIdle ==
  /\ chatComponent = "ChatBot"
  /\ apiKey = FALSE
  /\ messages = <<>>
  /\ input = <<>>
  /\ chatLoading = FALSE
  /\ inFlight = 0
  /\ attempts = 0

\* the server and the application around the chart are at rest
HostIdle == ServerIdle /\ AppIdle /\ ChatIdle

\* the local variables of a call that has not run yet
NoFrame ==
  [sortedData |-> <<>>, minDepth |-> 0, maxDepth |-> 0, depthRange |-> 0,
   minDT |-> 0, maxDT |-> 0, minGR |-> 0, maxGR |-> 0,
   rockTypes |-> <<>>, colorMap |-> <<>>]

CallIds == {1, 2}

\* no statement-by-statement call is under way
CallsIdle ==
  /\ callPc = [c \in CallIds |-> "done"]
  /\ callGiven = [c \in CallIds |-> <<>>]
  /\ callArray = [c \in CallIds |-> <<>>]
  /\ frames = [c \in CallIds |-> NoFrame]
  /\ callResult = [c \in CallIds |-> EmptyInput]

Init ==
  /\ CallsIdle
  /\ HostIdle
  /\ dataNull \in BOOLEAN
  /\ data \in (IF dataNull THEN {<<>>} ELSE Datasets)
  /\ out = WellDataChart(data, dataNull)
  /\ prevData = <<>>
  /\ prevOut = NoRender
  /\ renders = 1

\* the host renders again with the same prop
Rerender ==
  /\ renders < MaxRenders
  /\ out' = WellDataChart(data, dataNull)
  /\ prevData' = data
  /\ prevOut' = out
  /\ renders' = renders + 1
  /\ UNCHANGED <<data, dataNull>>
  /\ UNCHANGED <<callVars, hostVars>>

\* the host renders again with records i and i+1 exchanged
Reorder(i) ==
  /\ renders < MaxRenders
  /\ ~dataNull
  /\ i + 1 <= Len(data)
  /\ data' = SwapAdjacent(data, i)
  /\ out' = WellDataChart(data', dataNull)
  /\ prevData' = data
  /\ prevOut' = out
  /\ renders' = renders + 1
  /\ UNCHANGED dataNull
  /\ UNCHANGED <<callVars, hostVars>>

\* the host renders again with the first record moved to the end
Rotate ==
  /\ renders < MaxRenders
  /\ ~dataNull
  /\ Len(data) >= 2
  /\ data' = Tail(data) \o <<Head(data)>>
  /\ out' = WellDataChart(data', dataNull)
  /\ prevData' = data
  /\ prevOut' = out
  /\ renders' = renders + 1
  /\ UNCHANGED dataNull
  /\ UNCHANGED <<callVars, hostVars>>

Next ==
  \/ Rerender
  \/ \E i \in 1..MaxSwap : Reorder(i)
  \/ Rotate

Spec == Init /\ [][Next]_vars

(***************************************************************************)
(* Two calls of WellDataChart taken statement by statement, their steps    *)
(* interleaved in every order (one after the other included).  Each call   *)
(* has its own local variables (its frame); callGiven is the array as the  *)
(* caller passed it, callArray the caller's array as it is now.            *)
(***************************************************************************)
CallInputs ==
  {<<>>} \cup
  {WideDataset(n, c, dp, "vary", "vary") :
     n \in 1..MaxCallLen, c \in {1, 3}, dp \in DepthPatterns}

\* every call would use the variables of call 1
frameShared(c) == 1

\* the local variables call c reads and writes: its own
frameOf(c) == c

\* the caller's array sorted in place
arrayAfterSortInPlace(d) == sortedDataOf(d)

\* [...data].sort(...) sorts a copy: the caller's array is left as it was
arrayAfterSort(d) == d

\* the colour index carried on from the other call
forEachStartShared(fr, c) == Len(fr[3 - c].rockTypes)

\* rockTypes.forEach((rock, i) => ...): i counts from 0 in every call
forEachStart(fr, c) == 0

RECURSIVE ForEachRock(_, _, _, _)
ForEachRock(rocks, j, start, m) ==
  IF j > Len(rocks) THEN m
  ELSE ForEachRock(rocks, j + 1, start,
                   SetProperty(m, rocks[j], paletteColor(start + j - 1)))

\* the JSX returned from the local variables fr
ComposeLayout(fr) ==
  [kind       |-> "Layout",
   sortedData |-> fr.sortedData,
   minDepth   |-> fr.minDepth,
   maxDepth   |-> fr.maxDepth,
   depthRange |-> fr.depthRange,
   minDT      |-> fr.minDT,
   maxDT      |-> fr.maxDT,
   minGR      |-> fr.minGR,
   maxGR      |-> fr.maxGR,
   rockTypes  |-> fr.rockTypes,
   colorMap   |-> fr.colorMap,
   gridLines  |-> gridLinesOf(fr.minDepth, fr.depthRange),
   rockBars   |-> rockBarsOf(fr.sortedData, fr.minDepth, fr.depthRange, fr.colorMap),
   dtPoints   |-> dtPointsOf(fr.sortedData, fr.minDepth, fr.depthRange, fr.minDT, fr.maxDT),
   dtMarkers  |-> dtPointsOf(fr.sortedData, fr.minDepth, fr.depthRange, fr.minDT, fr.maxDT),
   grPoints   |-> grPointsOf(fr.sortedData, fr.minDepth, fr.depthRange, fr.minGR, fr.maxGR),
   grMarkers  |-> grPointsOf(fr.sortedData, fr.minDepth, fr.depthRange, fr.minGR, fr.maxGR),
   legend     |-> legendOf(fr.rockTypes, fr.colorMap)]

InitCalls ==
  /\ callGiven \in [CallIds -> CallInputs]
  /\ callArray = callGiven
  /\ callPc = [c \in CallIds |-> "guard"]
  /\ frames = [c \in CallIds |-> NoFrame]
  /\ callResult = [c \in CallIds |-> NoRender]
  /\ HostIdle
  /\ data = <<>>
  /\ dataNull = FALSE
  /\ out = EmptyInput
  /\ prevData = <<>>
  /\ prevOut = NoRender
  /\ renders = 1

\* line 15: the empty check
Guard(c) ==
  /\ callPc[c] = "guard"
  /\ IF Len(callArray[c]) = 0
     THEN /\ callResult' = [callResult EXCEPT ![c] = EmptyInput]
          /\ callPc' = [callPc EXCEPT ![c] = "done"]
     ELSE /\ callPc' = [callPc EXCEPT ![c] = "sort"]
          /\ UNCHANGED callResult
  /\ UNCHANGED <<callGiven, callArray, frames, chartVars, hostVars>>

\* line 24: sortedData
Sort(c) ==
  /\ callPc[c] = "sort"
  /\ frames' = [frames EXCEPT ![frameOf(c)].sortedData = sortedDataOf(callArray[c])]
  /\ callArray' = [callArray EXCEPT ![c] = arrayAfterSort(callArray[c])]
  /\ callPc' = [callPc EXCEPT ![c] = "ranges"]
  /\ UNCHANGED <<callGiven, callResult, chartVars, hostVars>>

\* lines 27-35: the ranges
Ranges(c) ==
  /\ callPc[c] = "ranges"
  /\ LET sd == frames[frameOf(c)].sortedData
     IN frames' = [frames EXCEPT ![frameOf(c)] =
          [@ EXCEPT !.minDepth = MathMin(Depths(sd)),
                    !.maxDepth = MathMax(Depths(sd)),
                    !.depthRange = MathMax(Depths(sd)) - MathMin(Depths(sd)),
                    !.minDT = MathMin(DTs(sd)),
                    !.maxDT = MathMax(DTs(sd)),
                    !.minGR = MathMin(GRs(sd)),
                    !.maxGR = MathMax(GRs(sd))]]
  /\ callPc' = [callPc EXCEPT ![c] = "colors"]
  /\ UNCHANGED <<callGiven, callArray, callResult, chartVars, hostVars>>

\* lines 38-46: rockTypes and colorMap
Colors(c) ==
  /\ callPc[c] = "colors"
  /\ LET rocks == rockTypesOf(frames[frameOf(c)].sortedData)
     IN frames' = [frames EXCEPT ![frameOf(c)] =
          [@ EXCEPT !.rockTypes = rocks,
                    !.colorMap = ForEachRock(rocks, 1, forEachStart(frames, c), <<>>)]]
  /\ callPc' = [callPc EXCEPT ![c] = "compose"]
  /\ UNCHANGED <<callGiven, callArray, callResult, chartVars, hostVars>>

\* lines 74-290: the returned chart
Compose(c) ==
  /\ callPc[c] = "compose"
  /\ callResult' = [callResult EXCEPT ![c] = ComposeLayout(frames[frameOf(c)])]
  /\ callPc' = [callPc EXCEPT ![c] = "done"]
  /\ UNCHANGED <<callGiven, callArray, frames, chartVars, hostVars>>

NextCalls ==
  \E c \in CallIds :
    \/ Guard(c)
    \/ Sort(c)
    \/ Ranges(c)
    \/ Colors(c)
    \/ Compose(c)

SpecCalls == InitCalls /\ [][NextCalls]_vars

(***************************************************************************)
(* The chat endpoint, src/unnamed/part_000 lines 197-358: one handler run  *)
(* per request, taken from one await to the next.  The environment holds   *)
(* GEMINI_API_KEY and OPENAI_API_KEY (unset, empty or a string); a         *)
(* provider call resolves with an OK or a non-OK response whose body can   *)
(* be read or not, or rejects.  providerCalls lists the providers the      *)
(* handler called, providerResults what they answered.                     *)
(***************************************************************************)
\* a JavaScript string is truthy when it is set and not empty
Truthy(key) == key.set /\ Len(key.chars) > 0

\* String.prototype.startsWith
StartsWith(chars, prefix) ==
  /\ Len(chars) >= Len(prefix)
  /\ SubSeq(chars, 1, Len(prefix)) = prefix

GeminiKeys == {UnsetKey, EnvKey(<<>>), EnvKey(<<"A", "I", "z", "a">>)}

OpenAIKeys ==
  {UnsetKey, EnvKey(<<>>), EnvKey(<<"s", "k", "-", "1">>), EnvKey(<<"s", "k">>),
   EnvKey(<<"p", "k", "-", "1">>), EnvKey(<<"x", "s", "k", "-">>)}

\* an OpenAI key is used whatever it starts with
openaiKeyAny(key) == Truthy(key)

\* openaiApiKey && openaiApiKey.startsWith('sk-')
openaiKeyUsable(key) == Truthy(key) /\ StartsWith(key.chars, <<"s", "k", "-">>)

NoReplyText == "No response generated"

Json(status, success, message, error) ==
  [status |-> status, success |-> success, message |-> message, error |-> error]

ReplyResponse(text) == Json(200, TRUE, text, Undefined)

MessageRequired == Json(400, FALSE, Undefined, "Message is required")

NoKeyConfigured == Json(500, FALSE, Undefined, "No AI API key configured.")

\* the catch block: Chat error: ${String(error)}
ChatError == Json(500, FALSE, Undefined, "Chat error")

\* what a provider answers: the fetch rejects, or resolves with ok or not
\* ok; the body can be read as JSON or not; text is the extracted reply
\* (Undefined when the body has no candidate or choice content); choices
\* tells whether the OpenAI body has a choices array; code and detail are
\* error.code and error.message of an OpenAI error body
Answer(fetched, readable, text, choices, code, detail) ==
  [fetched |-> fetched, readable |-> readable, text |-> text,
   choices |-> choices, code |-> code, detail |-> detail]

ReplyTexts == {"The interval is mostly shale.", "", Undefined}

GeminiAnswers ==
  {Answer("rejects", FALSE, Undefined, FALSE, Undefined, Undefined)}
  \cup {Answer("ok", TRUE, t, FALSE, Undefined, Undefined) : t \in ReplyTexts}
  \cup {Answer(f, FALSE, Undefined, FALSE, Undefined, Undefined) : f \in {"ok", "notok"}}
  \cup {Answer("notok", TRUE, Undefined, FALSE, Undefined, Undefined)}

OpenAIAnswers ==
  {Answer("rejects", FALSE, Undefined, FALSE, Undefined, Undefined)}
  \cup {Answer("ok", TRUE, t, TRUE, Undefined, Undefined) : t \in ReplyTexts}
  \cup {Answer("ok", TRUE, Undefined, FALSE, Undefined, Undefined)}
  \cup {Answer(f, FALSE, Undefined, FALSE, Undefined, Undefined) : f \in {"ok", "notok"}}
  \cup {Answer("notok", TRUE, Undefined, FALSE, c, d) :
          c \in {"insufficient_quota", "invalid_api_key", "rate_limit", Undefined},
          d \in {"The request failed.", Undefined}}

\* text || 'No response generated'
ReplyOr(text) == IF text = Undefined \/ text = "" THEN NoReplyText ELSE text

\* lines 333-340: the message of an OpenAI error response
OpenAIErrorMessage(a) ==
  IF a.code = "insufficient_quota" THEN "OpenAI API error: quota exceeded"
  ELSE IF a.code = "invalid_api_key" THEN "OpenAI API error: invalid key"
  ELSE IF a.detail # Undefined /\ a.detail # "" THEN "OpenAI API error: detail"
  ELSE "OpenAI API error: "

\* the handler returns the response r
Respond(r) ==
  /\ serverPc' = "done"
  /\ chatResponse' = r

\* lines 304-353: the OpenAI call is issued, or no key is configured
EnterOpenAI(calls) ==
  IF openaiKeyUsable(openaiApiKey)
  THEN /\ serverPc' = "openai"
       /\ providerCalls' = Append(calls, "openai")
       /\ chatResponse' = NoResponse
  ELSE /\ providerCalls' = calls
       /\ Respond(NoKeyConfigured)

\* lines 266-270: the Gemini call is issued when its key is set
EnterGemini ==
  IF Truthy(geminiApiKey)
  THEN /\ serverPc' = "gemini"
       /\ providerCalls' = <<"gemini">>
       /\ chatResponse' = NoResponse
  ELSE EnterOpenAI(<<>>)

InitServer ==
  /\ geminiApiKey \in GeminiKeys
  /\ openaiApiKey \in OpenAIKeys
  /\ serverPc = "idle"
  /\ providerCalls = <<>>
  /\ providerResults = <<>>
  /\ chatResponse = NoResponse
  /\ handled = 0
  /\ AppIdle
  /\ ChatIdle
  /\ CallsIdle
  /\ data = <<>>
  /\ dataNull = FALSE
  /\ out = EmptyInput
  /\ prevData = <<>>
  /\ prevOut = NoRender
  /\ renders = 1

\* lines 198-264: a request arrives; reading its body can throw, and a
\* request without a message is answered at once
ChatRequest(prelude) ==
  /\ serverPc \in {"idle", "done"}
  /\ handled < MaxRequests
  /\ handled' = handled + 1
  /\ providerResults' = <<>>
  /\ CASE prelude = "throws"    -> providerCalls' = <<>> /\ Respond(ChatError)
       [] prelude = "nomessage" -> providerCalls' = <<>> /\ Respond(MessageRequired)
       [] prelude = "ok"        -> EnterGemini
  /\ UNCHANGED <<geminiApiKey, openaiApiKey, chartVars, callVars, appVars, chatVars>>

\* lines 272-302: the Gemini call settles
GeminiSettles(a) ==
  /\ serverPc = "gemini"
  /\ providerResults' = Append(providerResults, [provider |-> "gemini", answer |-> a])
  /\ IF a.fetched = "rejects" \/ ~a.readable
     THEN providerCalls' = providerCalls /\ Respond(ChatError)
     ELSE IF a.fetched = "ok"
          THEN providerCalls' = providerCalls /\ Respond(ReplyResponse(ReplyOr(a.text)))
          ELSE EnterOpenAI(providerCalls)
  /\ UNCHANGED <<geminiApiKey, openaiApiKey, handled, chartVars, callVars, appVars, chatVars>>

\* lines 310-346: the OpenAI call settles
OpenAISettles(a) ==
  /\ serverPc = "openai"
  /\ providerResults' = Append(providerResults, [provider |-> "openai", answer |-> a])
  /\ IF a.fetched = "rejects" \/ ~a.readable
     THEN Respond(ChatError)
     ELSE IF a.fetched = "notok"
          THEN Respond(Json(500, FALSE, Undefined, OpenAIErrorMessage(a)))
          ELSE IF ~a.choices THEN Respond(ChatError)
               ELSE Respond(ReplyResponse(ReplyOr(a.text)))
  /\ UNCHANGED <<geminiApiKey, openaiApiKey, providerCalls, handled, chartVars, callVars, appVars, chatVars>>

NextServer ==
  \/ \E prelude \in {"ok", "nomessage", "throws"} : ChatRequest(prelude)
  \/ \E a \in GeminiAnswers : GeminiSettles(a)
  \/ \E a \in OpenAIAnswers : OpenAISettles(a)

SpecServer == InitServer /\ [][NextServer]_vars

(***************************************************************************)
(* The App component (src/src/App.tsx) with the WellDashboard it renders   *)
(* (src/src/components/WellListPanel.tsx lines 480-522).  The server holds *)
(* the wells 1..serverWells, the newest with the greatest id; the list the *)
(* App shows is sorted newest first, so a list of n wells starts with well *)
(* n.  A fetchWells call closes over the selectedWellId of the render that *)
(* created it (closure) and its response lists the wells the server held   *)
(* at some moment between the call and its completion.  While loading is   *)
(* true the App renders only a spinner: the WellDashboard is unmounted,    *)
(* and its state and the effect of its requests in flight are gone.        *)
(***************************************************************************)
\* wells.find(w => w.id === selectedWellId) || null, as an id
selectedWellOf(sel, list) == IF sel \in 1..list THEN sel ELSE 0

\* the state of the WellDashboard after a step that leaves the App with the
\* given loading flag, selection and list: unmounted, mounted anew (the
\* effect runs), or kept (the effect runs if selectedWell?.id changed)
DashAfter(loadingAfter, selAfter, listAfter) ==
  LET before == selectedWellOf(selectedWellId, wells)
      after  == selectedWellOf(selAfter, listAfter)
  IN IF loadingAfter THEN [data |-> 0, fetch |-> NoFetches]
     ELSE IF loading
          THEN [data  |-> 0,
                fetch |-> IF after # 0 THEN [NoFetches EXCEPT ![after] = 1]
                          ELSE NoFetches]
     ELSE IF after = before THEN [data |-> dashWellData, fetch |-> dashFetch]
     ELSE IF after # 0
          THEN [data |-> dashWellData, fetch |-> [dashFetch EXCEPT ![after] = @ + 1]]
     ELSE [data |-> 0, fetch |-> dashFetch]

\* the WellDashboard follows a step of the App
DashFollows(loadingAfter, selAfter, listAfter) ==
  /\ dashWellData' = DashAfter(loadingAfter, selAfter, listAfter).data
  /\ dashFetch' = DashAfter(loadingAfter, selAfter, listAfter).fetch

\* the most fetchWells calls of one run: mount, initializeMockData, handlers
MaxIssued == 2 + MaxRefreshes

\* fetchWells up to its await: setLoading(true) and the request
IssueWells(closure) ==
  /\ wellsFetches' = wellsFetches \cup
       {[ticket |-> issued + 1, closure |-> closure, low |-> serverWells]}
  /\ issued' = issued + 1
  /\ loading' = TRUE

\* the state after the mount effect (lines 38-41) has called fetchWells and
\* initializeMockData, both created by the first render
InitApp ==
  /\ serverWells \in 0..MaxStored
  /\ wells = 0
  /\ selectedWellId = 0
  /\ loading = TRUE
  /\ wellsFetches = {[ticket |-> 1, closure |-> 0, low |-> serverWells]}
  /\ issued = 1
  /\ initPc = "get"
  /\ posted = 0
  /\ userSelected = 0
  /\ clicks = 0
  /\ appWellData = 0
  /\ dashWellData = 0
  /\ appFetch = NoFetches
  /\ dashFetch = NoFetches
  /\ ServerIdle
  /\ ChatIdle
  /\ CallsIdle
  /\ data = <<>>
  /\ dataNull = FALSE
  /\ out = EmptyInput
  /\ prevData = <<>>
  /\ prevOut = NoRender
  /\ renders = 1

\* initializeMockData, lines 45-57: the list request is answered
InitGet(ok) ==
  /\ initPc = "get"
  /\ initPc' = IF ok /\ serverWells = 0 THEN "post" ELSE "done"
  /\ UNCHANGED <<serverWells, wells, selectedWellId, loading, wellsFetches, issued,
                 posted, userSelected, clicks, appWellData, dashWellData,
                 appFetch, dashFetch>>
  /\ UNCHANGED <<chartVars, callVars, serverVars, chatVars>>

\* initializeMockData, lines 66-78: one mock well is posted
InitPost ==
  /\ initPc = "post"
  /\ posted < mockWells
  /\ posted' = posted + 1
  /\ serverWells' = serverWells + 1
  /\ UNCHANGED <<wells, selectedWellId, loading, wellsFetches, issued, initPc,
                 userSelected, clicks, appWellData, dashWellData, appFetch, dashFetch>>
  /\ UNCHANGED <<chartVars, callVars, serverVars, chatVars>>

\* initializeMockData, line 81: await fetchWells(), the fetchWells of the
\* first render
InitRefresh ==
  /\ initPc = "post"
  /\ posted = mockWells
  /\ initPc' = "done"
  /\ IssueWells(0)
  /\ DashFollows(TRUE, selectedWellId, wells)
  /\ UNCHANGED <<serverWells, wells, selectedWellId, posted, userSelected, clicks,
                 appWellData, appFetch>>
  /\ UNCHANGED <<chartVars, callVars, serverVars, chatVars>>

\* fetchWells, lines 99-116: the response of the call f arrives with n wells
WellsSettle(f, n, ok) ==
  /\ f \in wellsFetches
  /\ n \in f.low..serverWells
  /\ wellsFetches' = wellsFetches \ {f}
  /\ loading' = FALSE
  /\ wells' = IF ok THEN n ELSE wells
  /\ selectedWellId' = IF ok /\ f.closure = 0 /\ n > 0 THEN n ELSE selectedWellId
  /\ DashFollows(FALSE, selectedWellId', wells')
  /\ UNCHANGED <<serverWells, issued, initPc, posted, userSelected, clicks,
                 appWellData, appFetch>>
  /\ UNCHANGED <<chartVars, callVars, serverVars, chatVars>>

\* handleSelectWell, lines 128-133: the user clicks the well w of the list
SelectWell(w) ==
  /\ ~loading
  /\ w \in 1..wells
  /\ clicks < MaxClicks
  /\ clicks' = clicks + 1
  /\ selectedWellId' = w
  /\ userSelected' = w
  /\ appFetch' = [appFetch EXCEPT ![w] = @ + 1]
  /\ DashFollows(FALSE, w, wells)
  /\ UNCHANGED <<serverWells, wells, loading, wellsFetches, issued, initPc, posted,
                 appWellData>>
  /\ UNCHANGED <<chartVars, callVars, serverVars, chatVars>>

\* handleWellAdded, lines 124-126, after the dialog has created a well
WellAdded ==
  /\ ~loading
  /\ issued < MaxIssued
  /\ serverWells < MaxWells
  /\ serverWells' = serverWells + 1
  /\ IssueWells(selectedWellId)
  /\ DashFollows(TRUE, selectedWellId, wells)
  /\ UNCHANGED <<wells, selectedWellId, initPc, posted, userSelected, clicks,
                 appWellData, appFetch>>
  /\ UNCHANGED <<chartVars, callVars, serverVars, chatVars>>

\* onDataUploaded, lines 221-226: fetchWells and, with a selection, fetchWellData
OnDataUploaded ==
  /\ ~loading
  /\ issued < MaxIssued
  /\ selectedWellOf(selectedWellId, wells) # 0
  /\ IssueWells(selectedWellId)
  /\ appFetch' = [appFetch EXCEPT ![selectedWellId] = @ + 1]
  /\ DashFollows(TRUE, selectedWellId, wells)
  /\ UNCHANGED <<serverWells, wells, selectedWellId, initPc, posted, userSelected,
                 clicks, appWellData>>
  /\ UNCHANGED <<chartVars, callVars, serverVars, chatVars>>

\* App.fetchWellData, lines 135-157: the response for the well w arrives
AppDataSettle(w, found) ==
  /\ appFetch[w] > 0
  /\ appFetch' = [appFetch EXCEPT ![w] = @ - 1]
  /\ appWellData' = IF found THEN w ELSE 0
  /\ UNCHANGED <<serverWells, wells, selectedWellId, loading, wellsFetches, issued,
                 initPc, posted, userSelected, clicks, dashWellData, dashFetch>>
  /\ UNCHANGED <<chartVars, callVars, serverVars, chatVars>>

\* WellDashboard.fetchWellData, lines 496-522: the response for w arrives
DashDataSettle(w, found) ==
  /\ dashFetch[w] > 0
  /\ dashFetch' = [dashFetch EXCEPT ![w] = @ - 1]
  /\ dashWellData' = IF found THEN w ELSE 0
  /\ UNCHANGED <<serverWells, wells, selectedWellId, loading, wellsFetches, issued,
                 initPc, posted, userSelected, clicks, appWellData, appFetch>>
  /\ UNCHANGED <<chartVars, callVars, serverVars, chatVars>>

NextApp ==
  \/ \E ok \in BOOLEAN : InitGet(ok)
  \/ InitPost
  \/ InitRefresh
  \/ \E f \in wellsFetches, n \in 0..MaxWells, ok \in BOOLEAN : WellsSettle(f, n, ok)
  \/ \E w \in WellIds : SelectWell(w)
  \/ WellAdded
  \/ OnDataUploaded
  \/ \E w \in WellIds, found \in BOOLEAN : AppDataSettle(w, found)
  \/ \E w \in WellIds, found \in BOOLEAN : DashDataSettle(w, found)

SpecApp == InitApp /\ [][NextApp]_vars

(***************************************************************************)
(* The chat components: ChatBot (src/src/components/WellListPanel.tsx      *)
(* lines 132-281) and ChatPanel (src/src/components/ChatPanel.tsx lines    *)
(* 34-153).  Both keep messages, input and loading; the send handler runs  *)
(* up to its await inside one event, and the state it set is rendered      *)
(* before the next event is handled.  ChatBot posts to the chat endpoint,  *)
(* ChatPanel calls Gemini with a key taken from the build environment and  *)
(* throws before the request when there is none.  The text of a message is *)
(* a sequence of characters.                                               *)
(***************************************************************************)
Space == " "

\* String.prototype.trim, from the left and from the right
RECURSIVE TrimStart(_)
TrimStart(t) ==
  IF Len(t) > 0 /\ t[1] = Space THEN TrimStart(Tail(t)) ELSE t

RECURSIVE TrimEnd(_)
TrimEnd(t) ==
  IF Len(t) > 0 /\ t[Len(t)] = Space THEN TrimEnd(SubSeq(t, 1, Len(t) - 1)) ELSE t

Trim(t) == TrimEnd(TrimStart(t))

\* what the user can have typed
Inputs == {<<>>, <<Space, Space>>, <<"D", "T", "?">>, <<Space, "G", "R", Space>>}

Message(role, kind, content) == [role |-> role, kind |-> kind, content |-> content]

welcomeMessage == Message("assistant", "welcome", <<>>)

\* how a chat request can end: a reply, an OK response without a reply, a
\* non-OK response, a body that cannot be read, a rejected fetch, a reply
\* of an unexpected shape
Outcomes == {"reply", "noreply", "notok", "unreadable", "rejects", "malformed"}

\* the send is taken even while a request is in flight
sendAcceptedWhileLoading(text, busy) == Trim(text) # <<>>

\* if (!input.trim() || loading) return;
sendAccepted(text, busy) == Trim(text) # <<>> /\ ~busy

\* a rejected fetch leaves no message
assistantMessagesSilent(outcome) ==
  IF outcome = "reply" THEN <<Message("assistant", "reply", <<>>)>>
  ELSE IF outcome = "rejects" THEN <<>>
  ELSE <<Message("assistant", "error", <<>>)>>

\* the messages appended when a request ends: the reply, or the error
\* message of the else branch or of the catch block
assistantMessages(outcome) ==
  IF outcome = "reply" THEN <<Message("assistant", "reply", <<>>)>>
  ELSE <<Message("assistant", "error", <<>>)>>

\* the component after its mount effect has added the welcome message
InitChat ==
  /\ chatComponent \in {"ChatBot", "ChatPanel"}
  /\ apiKey \in (IF chatComponent = "ChatPanel" THEN BOOLEAN ELSE {FALSE})
  /\ messages = <<welcomeMessage>>
  /\ input = <<>>
  /\ chatLoading = FALSE
  /\ inFlight = 0
  /\ attempts = 0
  /\ ServerIdle
  /\ AppIdle
  /\ CallsIdle
  /\ data = <<>>
  /\ dataNull = FALSE
  /\ out = EmptyInput
  /\ prevData = <<>>
  /\ prevOut = NoRender
  /\ renders = 1

\* onChange: setInput(e.target.value)
Type(text) ==
  /\ input # text
  /\ input' = text
  /\ UNCHANGED <<chatComponent, apiKey, messages, chatLoading, inFlight, attempts>>
  /\ UNCHANGED <<chartVars, callVars, serverVars, appVars>>

\* sendMessage / handleSend up to the await, called by the Enter key or the
\* send button: the guard, the user message, and the request; ChatPanel
\* without a key throws at once and runs its catch and finally blocks
Send ==
  /\ attempts < MaxAttempts
  /\ attempts' = attempts + 1
  /\ IF ~sendAccepted(input, chatLoading)
     THEN UNCHANGED <<messages, input, chatLoading, inFlight>>
     ELSE /\ input' = <<>>
          /\ IF chatComponent = "ChatPanel" /\ ~apiKey
             THEN /\ messages' = Append(messages, Message("user", "question", Trim(input)))
                                   \o assistantMessages("rejects")
                  /\ UNCHANGED <<chatLoading, inFlight>>
             ELSE /\ messages' = Append(messages, Message("user", "question", Trim(input)))
                  /\ chatLoading' = TRUE
                  /\ inFlight' = inFlight + 1
  /\ UNCHANGED <<chatComponent, apiKey>>
  /\ UNCHANGED <<chartVars, callVars, serverVars, appVars>>

\* the rest of sendMessage / handleSend: the request ends, the reply or an
\* error message is appended, finally setLoading(false)
Settle(outcome) ==
  /\ inFlight > 0
  /\ inFlight' = inFlight - 1
  /\ messages' = messages \o assistantMessages(outcome)
  /\ chatLoading' = FALSE
  /\ UNCHANGED <<chatComponent, apiKey, input, attempts>>
  /\ UNCHANGED <<chartVars, callVars, serverVars, appVars>>

NextChat ==
  \/ \E text \in Inputs : Type(text)
  \/ Send
  \/ \E outcome \in Outcomes : Settle(outcome)

SpecChat == InitChat /\ [][NextChat]_vars

\* every request ends: it is answered, or the fetch rejects
SpecChatFair == SpecChat /\ WF_vars(\E outcome \in Outcomes : Settle(outcome))

(***************************************************************************)
(* Properties of the chart.                                                *)
(***************************************************************************)
IsLayout(o) == o.kind = "Layout"

plotTop == Int2Num(padding.top)

plotBottom == Int2Num(chartHeight - padding.bottom)

plotMiddle == NumDiv(NumAdd(plotTop, plotBottom), Int2Num(2))

\* plotLeft + (tenths / 10) * W, with W the width of one track
TrackX(tenths) == NumAdd(Int2Num(padding.left), ColumnFraction(tenths))

InRange(x, lo, hi) == NumLe(lo, x) /\ NumLe(x, hi)

\* C1: an empty dataset (no records, or a null/undefined prop) yields the
\* EmptyInput state and nothing else: no sorted data, no ranges, no scaled
\* coordinates, never a chart layout.
C1_EmptyInput ==
  (dataNull \/ Len(data) = 0) => (out = EmptyInput /\ DOMAIN out = {"kind"})

C1_Witness ==
  /\ ~dataNull /\ Len(data) = 0 /\ renders = MaxRenders
  /\ out.kind = "EmptyInput" /\ prevOut.kind = "EmptyInput"

\* C2: when a numeric track has min = max, every point of the track is at
\* one well-defined x: the midpoint of the track (DT: second third of the
\* plot, GR: third third).
C2_DegenerateTrackMidpoint ==
  IsLayout(out) =>
    /\ out.minDT = out.maxDT =>
         \A i \in 1..Len(out.dtPoints) :
           /\ IsFinite(out.dtPoints[i].x) /\ out.dtPoints[i].x = TrackX(15)
           /\ out.dtMarkers[i].x = TrackX(15)
    /\ out.minGR = out.maxGR =>
         \A i \in 1..Len(out.grPoints) :
           /\ IsFinite(out.grPoints[i].x) /\ out.grPoints[i].x = TrackX(25)
           /\ out.grMarkers[i].x = TrackX(25)

\* C3: when the depth span is zero, every band start, marker y and gridline
\* y is the midpoint of the vertical plot extent.
C3_DegenerateDepthMidpoint ==
  (IsLayout(out) /\ out.depthRange = 0) =>
    /\ \A i \in 1..Len(out.rockBars) :
         IsFinite(out.rockBars[i].y) /\ out.rockBars[i].y = plotMiddle
    /\ \A i \in 1..Len(out.dtMarkers) :
         out.dtMarkers[i].y = plotMiddle /\ out.grMarkers[i].y = plotMiddle
    /\ \A j \in 1..Len(out.gridLines) : out.gridLines[j].y = plotMiddle

\* C4: every DT point and marker lies in the second third of the plot,
\* inset by a tenth of the track: plotLeft + 1.1 W <= x <= plotLeft + 1.9 W,
\* minDT at the left bound and maxDT at the right bound.
C4_DTInSecondTrack ==
  IsLayout(out) =>
    \A i \in 1..Len(out.dtPoints) :
      /\ InRange(out.dtPoints[i].x, TrackX(11), TrackX(19))
      /\ InRange(out.dtMarkers[i].x, TrackX(11), TrackX(19))
      /\ out.sortedData[i].DT = out.minDT => out.dtPoints[i].x = TrackX(11)
      /\ out.sortedData[i].DT = out.maxDT => out.dtPoints[i].x = TrackX(19)

\* C5: every GR point and marker lies in the third third of the plot, inset
\* by a tenth of the track: plotLeft + 2.1 W <= x <= plotLeft + 2.9 W, minGR
\* at the left bound and maxGR at the right bound.
C5_GRInThirdTrack ==
  IsLayout(out) =>
    \A i \in 1..Len(out.grPoints) :
      /\ InRange(out.grPoints[i].x, TrackX(21), TrackX(29))
      /\ InRange(out.grMarkers[i].x, TrackX(21), TrackX(29))
      /\ out.sortedData[i].GR = out.minGR => out.grPoints[i].x = TrackX(21)
      /\ out.sortedData[i].GR = out.maxGR => out.grPoints[i].x = TrackX(29)

\* the number of positions of d that hold record r
Occurrences(d, r) == Cardinality({i \in 1..Len(d) : d[i] = r})

SeqElems(d) == {d[i] : i \in 1..Len(d)}

\* d and e hold the same records, each as many times
SameRecords(d, e) ==
  /\ Len(d) = Len(e)
  /\ \A r \in SeqElems(d) \cup SeqElems(e) : Occurrences(d, r) = Occurrences(e, r)

AtDepth(d, x) == SelectSeq(d, LAMBDA r : r.depth = x)

\* the records of any one depth come in the same order in d and in e
SameTieOrder(d, e) ==
  \A x \in {r.depth : r \in SeqElems(d) \cup SeqElems(e)} :
    AtDepth(d, x) = AtDepth(e, x)

\* C6 as stated: two renders of the same records, in whatever order, give
\* the same sorted sequence, colour assignment and geometry.
C6_OrderIndependent ==
  (IsLayout(out) /\ IsLayout(prevOut) /\ SameRecords(prevData, data)) =>
    out = prevOut

\* C6 amended: two renders of the same records give the same sorted
\* sequence, colour assignment and geometry when the records of equal
\* depth come in the same relative order in both inputs.
C6_OrderIndependentUpToTies ==
  (/\ IsLayout(out) /\ IsLayout(prevOut)
   /\ SameRecords(prevData, data) /\ SameTieOrder(prevData, data)) =>
    /\ out.sortedData = prevOut.sortedData
    /\ out.colorMap = prevOut.colorMap
    /\ out = prevOut

C6_Witness ==
  /\ IsLayout(out) /\ IsLayout(prevOut)
  /\ prevData # data /\ SameRecords(prevData, data)
  /\ SameTieOrder(prevData, data)
  /\ Len(out.rockTypes) >= 2
  /\ out = prevOut

\* C7 as stated: for every non-empty dataset the depth scale maps minDepth
\* to the top of the plot and maxDepth to its bottom.
C7_DepthEndpoints ==
  IsLayout(out) =>
    /\ scaleDepth(Int2Num(out.minDepth), out.minDepth, out.depthRange) = plotTop
    /\ scaleDepth(Int2Num(out.maxDepth), out.minDepth, out.depthRange) = plotBottom

\* C7 amended: for every dataset with minDepth < maxDepth the depth scale
\* maps minDepth to the top of the plot and maxDepth to its bottom; so the
\* first and the last gridline, and the markers of the shallowest and the
\* deepest record, lie on the plot's top and bottom.
C7_DepthEndpointsNonDegenerate ==
  (IsLayout(out) /\ out.minDepth < out.maxDepth) =>
    /\ scaleDepth(Int2Num(out.minDepth), out.minDepth, out.depthRange) = plotTop
    /\ scaleDepth(Int2Num(out.maxDepth), out.minDepth, out.depthRange) = plotBottom
    /\ out.gridLines[1].y = plotTop
    /\ out.gridLines[depthTicks + 1].y = plotBottom
    /\ out.dtMarkers[1].y = plotTop
    /\ out.dtMarkers[Len(out.dtMarkers)].y = plotBottom

C7_Witness ==
  /\ IsLayout(out) /\ out.minDepth < out.maxDepth
  /\ Len(data) >= 3 /\ data # out.sortedData
  /\ out.rockBars[1].y = plotTop
  /\ out.grMarkers[Len(data)].y = plotBottom

\* C8: the bands tile the vertical extent of the plot: the first starts at
\* the plot top, each ends where the next starts, the last ends at the plot
\* bottom.
C8_BandsTile ==
  IsLayout(out) =>
    LET b == out.rockBars
        n == Len(out.rockBars)
    IN /\ b[1].y = plotTop
       /\ \A i \in 1..(n - 1) : NumAdd(b[i].y, b[i].height) = b[i + 1].y
       /\ NumAdd(b[n].y, b[n].height) = plotBottom
       /\ \A i \in 1..n : IsFinite(b[i].y) /\ IsFinite(b[i].height)

\* C9: there are as many bands as input measurements: equal consecutive
\* categories are not merged and records of equal depth each get a band.
C9_OneBandPerMeasurement ==
  IsLayout(out) =>
    /\ Len(out.rockBars) = Len(data)
    /\ \A i \in 1..Len(out.rockBars) :
         out.rockBars[i].rock = out.sortedData[i].rockComposition

C9_Witness ==
  /\ IsLayout(out) /\ Len(data) >= 3
  /\ \E i \in 1..(Len(data) - 1) :
       /\ out.sortedData[i].rockComposition = out.sortedData[i + 1].rockComposition
       /\ out.sortedData[i].depth = out.sortedData[i + 1].depth
  /\ Len(out.rockBars) = Len(data)

\* the position at which rock type r is first seen in the sorted records
FirstSeen(sorted, r) ==
  CHOOSE i \in 1..Len(sorted) :
    /\ sorted[i].rockComposition = r
    /\ \A j \in 1..(i - 1) : sorted[j].rockComposition # r

\* C10: the colour table has exactly one entry per distinct category; the
\* k-th distinct category in first-seen order (from 0) has palette[k mod 10];
\* up to 10 categories get pairwise distinct colours and the 11th gets the
\* colour of the 1st.
C10_ColorAssignment ==
  IsLayout(out) =>
    LET cats == {data[i].rockComposition : i \in 1..Len(data)}
        rt   == out.rockTypes
    IN /\ DOMAIN out.colorMap = cats
       /\ Len(rt) = Cardinality(cats)
       /\ {rt[k] : k \in 1..Len(rt)} = cats
       /\ \A k, l \in 1..Len(rt) :
            k < l => FirstSeen(out.sortedData, rt[k]) < FirstSeen(out.sortedData, rt[l])
       /\ \A k \in 1..Len(rt) : out.colorMap[rt[k]] = colors[((k - 1) % 10) + 1]
       /\ \A k, l \in 1..Len(rt) :
            (k < l /\ l <= 10) => out.colorMap[rt[k]] # out.colorMap[rt[l]]
       /\ Len(rt) >= 11 => out.colorMap[rt[11]] = out.colorMap[rt[1]]

\* C11: every band is filled with the palette colour its category has in
\* the assignment table; no band has an undefined or blank fill and the
\* fallback colour is never used.
C11_BandFillFromTable ==
  IsLayout(out) =>
    \A i \in 1..Len(out.rockBars) :
      LET b == out.rockBars[i]
      IN /\ b.rock \in DOMAIN out.colorMap
         /\ b.fill = out.colorMap[b.rock]
         /\ InSeq(b.fill, colors)
         /\ b.fill # fallbackFill

\* C12: sorting by depth is stable: records of equal depth come in the
\* sorted dataset, and so in the bands and in both polylines, in the order
\* they have in the input.
C12_StableSort ==
  IsLayout(out) =>
    \A x \in {data[i].depth : i \in 1..Len(data)} :
      /\ AtDepth(out.sortedData, x) = AtDepth(data, x)
      /\ [i \in 1..Len(AtDepth(data, x)) |-> AtDepth(data, x)[i].rockComposition]
           = [i \in 1..Len(AtDepth(data, x)) |->
                SelectSeq(out.rockBars,
                          LAMBDA b : b.y = scaleDepth(Int2Num(x), out.minDepth,
                                                      out.depthRange))[i].rock]

C12_Witness ==
  /\ IsLayout(out) /\ data # out.sortedData
  /\ \E i, j \in 1..Len(data) :
       /\ i < j /\ data[i].depth = data[j].depth /\ data[i] # data[j]
       /\ \E k, l \in 1..Len(data) :
            k < l /\ out.sortedData[k] = data[i] /\ out.sortedData[l] = data[j]

\* C13: the sorted dataset is a permutation of the input records (nothing
\* dropped or duplicated) with non-decreasing depths, for any input order.
C13_SortedPermutation ==
  IsLayout(out) =>
    /\ SameRecords(data, out.sortedData)
    /\ \A i \in 1..(Len(out.sortedData) - 1) :
         out.sortedData[i].depth <= out.sortedData[i + 1].depth

C13_Witness ==
  /\ IsLayout(out) /\ Len(data) >= 3
  /\ \E i \in 1..(Len(data) - 1) : data[i].depth > data[i + 1].depth
  /\ \E i, j \in 1..Len(data) : i # j /\ data[i] = data[j]
  /\ SameRecords(data, out.sortedData)

\* C14: the legend lists every distinct category exactly once, in
\* first-seen order, and the colour of a category in the legend is the
\* colour that fills every band of that category.
C14_LegendMatchesBands ==
  IsLayout(out) =>
    LET cats == {data[i].rockComposition : i \in 1..Len(data)}
        lg   == out.legend
    IN /\ {lg[k].rock : k \in 1..Len(lg)} = cats
       /\ \A k, l \in 1..Len(lg) : k # l => lg[k].rock # lg[l].rock
       /\ \A k, l \in 1..Len(lg) :
            k < l => FirstSeen(out.sortedData, lg[k].rock)
                       < FirstSeen(out.sortedData, lg[l].rock)
       /\ \A k \in 1..Len(lg) : \A i \in 1..Len(out.rockBars) :
            out.rockBars[i].rock = lg[k].rock => out.rockBars[i].fill = lg[k].color

C14_Witness ==
  /\ IsLayout(out) /\ Len(out.legend) = 3 /\ Len(out.rockBars) >= 5
  /\ out.legend[1].rock # data[1].rockComposition
  /\ out.rockBars[4].fill = out.legend[1].color
  /\ out.legend[1].color # out.legend[2].color

\* the points of one numeric track: one per sorted record, in that order,
\* with non-decreasing y, and one marker on each
TrackInDepthOrder(points, markers, xs) ==
  /\ Len(points) = Len(data)
  /\ Len(markers) = Len(points)
  /\ \A i \in 1..Len(points) :
       /\ points[i].x = xs[i]
       /\ points[i].y = scaleDepth(Int2Num(out.sortedData[i].depth),
                                   out.minDepth, out.depthRange)
       /\ markers[i] = points[i]
  /\ \A i \in 1..(Len(points) - 1) : NumLe(points[i].y, points[i + 1].y)

\* C15: each numeric-track polyline has one vertex per measurement, in
\* sorted-depth order and never re-sorted by value, so the vertex y is
\* non-decreasing along the polyline; each vertex has its one marker.
C15_PolylineInDepthOrder ==
  IsLayout(out) =>
    /\ TrackInDepthOrder(out.dtPoints, out.dtMarkers,
         [i \in 1..Len(data) |-> scaleDT(out.sortedData[i].DT, out.minDT, out.maxDT)])
    /\ TrackInDepthOrder(out.grPoints, out.grMarkers,
         [i \in 1..Len(data) |-> scaleGR(out.sortedData[i].GR, out.minGR, out.maxGR)])

AllCallsDone == \A c \in CallIds : callPc[c] = "done"

\* C16: a second call with the same dataset in the same order returns what
\* the first returned: the colour assignment is built anew in every call
\* and no call reads what another wrote.
C16_SameInputSameOutput ==
  (AllCallsDone /\ callGiven[1] = callGiven[2]) => callResult[1] = callResult[2]

C16_Witness ==
  /\ AllCallsDone /\ callGiven[1] = callGiven[2]
  /\ IsLayout(callResult[1]) /\ Len(callResult[1].rockTypes) >= 2
  /\ callResult[2].colorMap = callResult[1].colorMap
  /\ callResult[2].rockBars = callResult[1].rockBars

\* C17: a call leaves its input as it was: the caller's array holds the
\* same records in the same order during and after the call.
C17_InputUnchanged ==
  \A c \in CallIds : callArray[c] = callGiven[c]

C17_Witness ==
  /\ callPc[1] = "done" /\ IsLayout(callResult[1])
  /\ callResult[1].sortedData # callGiven[1]
  /\ callArray[1] = callGiven[1]

\* C18: two calls on different datasets, their steps interleaved in any
\* order, each return what the call returns when it runs alone.
C18_InterleavedCallsIndependent ==
  \A c \in CallIds :
    callPc[c] = "done" => callResult[c] = WellDataChart(callGiven[c], FALSE)

C18_Witness ==
  /\ AllCallsDone /\ callGiven[1] # callGiven[2]
  /\ IsLayout(callResult[1]) /\ IsLayout(callResult[2])
  /\ callResult[1].colorMap # callResult[2].colorMap
  /\ callResult[1] = LayoutOf(callGiven[1])
  /\ callResult[2] = LayoutOf(callGiven[2])

ValuesOf(d, field) == {d[i][field] : i \in 1..Len(d)}

\* C19: for every non-empty dataset each derived range (depth, DT, GR) has
\* min <= max, and min and max are values some record carries.
C19_RangesFromRecords ==
  IsLayout(out) =>
    /\ out.minDepth <= out.maxDepth
    /\ out.minDT <= out.maxDT
    /\ out.minGR <= out.maxGR
    /\ {out.minDepth, out.maxDepth} \subseteq ValuesOf(data, "depth")
    /\ {out.minDT, out.maxDT} \subseteq ValuesOf(data, "DT")
    /\ {out.minGR, out.maxGR} \subseteq ValuesOf(data, "GR")
    /\ out.depthRange = out.maxDepth - out.minDepth

C19_Witness ==
  /\ IsLayout(out) /\ Len(data) >= 3
  /\ out.minDepth < out.maxDepth /\ out.minDT < out.maxDT /\ out.minGR < out.maxGR
  /\ data[1].depth # out.minDepth /\ data[1].DT # out.minDT
  /\ out.minDT \in ValuesOf(data, "DT") /\ out.maxGR \in ValuesOf(data, "GR")

\* C20: the band of the last sorted measurement ends at the plot's bottom
\* edge (chartHeight - padding.bottom); every other band i ends at the
\* depth-scale of sorted measurement i+1.  A band ends at y + height.
C20_BandEnds ==
  IsLayout(out) =>
    LET b == out.rockBars
        n == Len(out.rockBars)
    IN /\ NumAdd(b[n].y, b[n].height) = Int2Num(chartHeight - padding.bottom)
       /\ \A i \in 1..(n - 1) :
            NumAdd(b[i].y, b[i].height)
              = scaleDepth(Int2Num(out.sortedData[i + 1].depth),
                           out.minDepth, out.depthRange)

\* the height h is a number strictly greater than the integer t
HeightAbove(h, t) == IsFinite(h) /\ h.n > t * h.d

\* C21: a band's category label is rendered if and only if the band's pixel
\* height is strictly greater than 20; a band of height 20 or less has a
\* coloured rectangle (a fill) and no text.
C21_LabelThreshold ==
  IsLayout(out) =>
    \A i \in 1..Len(out.rockBars) :
      /\ out.rockBars[i].label <=> HeightAbove(out.rockBars[i].height, 20)
      /\ out.rockBars[i].fill # Undefined

\* a chart with an unlabelled band of exactly 20 pixels and a labelled band
C21_Witness ==
  /\ IsLayout(out)
  /\ C21_LabelThreshold
  /\ \E i \in 1..Len(out.rockBars) :
       out.rockBars[i].height = Int2Num(20) /\ ~out.rockBars[i].label
  /\ \E i \in 1..Len(out.rockBars) : out.rockBars[i].label

\* C22: the compositor draws exactly 11 depth gridlines with labels,
\* gridline i at depth minDepth + i * (depthSpan / 10) for i = 0..10;
\* gridline 0 lies on the plot top, gridline 10 on the plot bottom, and
\* consecutive gridlines are plotHeight / 10 pixels apart.
C22_Gridlines ==
  IsLayout(out) =>
    LET g == out.gridLines
    IN /\ Len(g) = 11
       /\ \A j \in 1..Len(g) :
            g[j].depth = Frac(10 * out.minDepth + (j - 1) * out.depthRange, 10)
       /\ g[1].y = plotTop
       /\ g[11].y = plotBottom
       /\ \A j \in 1..(Len(g) - 1) :
            NumSub(g[j + 1].y, g[j].y) = Frac(plotHeight, 10)

\* the dataset spans more than one depth
SpansDepths(d) == \E i, j \in 1..Len(d) : d[i].depth < d[j].depth

\* the greatest depth of the dataset d
DeepestDepth(d) ==
  CHOOSE x \in {d[i].depth : i \in 1..Len(d)} : \A i \in 1..Len(d) : d[i].depth <= x

\* C25: whenever the dataset spans more than one depth, the band of a record
\* whose depth equals maxDepth has pixel height 0 and no band label; its
\* category is still listed in the legend.
C25_DeepestBandEmpty ==
  (IsLayout(out) /\ SpansDepths(data)) =>
    \A i \in 1..Len(out.rockBars) :
      out.sortedData[i].depth = DeepestDepth(data) =>
        /\ out.rockBars[i].height = Int2Num(0)
        /\ ~out.rockBars[i].label
        /\ \E k \in 1..Len(out.legend) :
             out.legend[k].rock = out.sortedData[i].rockComposition

\* a chart of several depths whose deepest record is the only one of its
\* category, next to a labelled band
C25_Witness ==
  /\ IsLayout(out) /\ SpansDepths(data)
  /\ \E i \in 1..Len(out.rockBars) :
       /\ out.sortedData[i].depth = DeepestDepth(data)
       /\ out.rockBars[i].height = Int2Num(0)
       /\ \A j \in 1..Len(out.rockBars) :
            j # i => out.rockBars[j].rock # out.rockBars[i].rock
  /\ \E j \in 1..Len(out.rockBars) : out.rockBars[j].label

DistinctDepths(d) == \A i, j \in 1..Len(d) : i # j => d[i].depth # d[j].depth

\* C27: first-seen order for colour assignment is taken over the
\* depth-sorted dataset: the category of the shallowest record (the first
\* of them in the input, if several share the least depth) receives palette
\* colour 0, and two datasets with the same records in different input order
\* receive the same colour table whenever all depths are distinct.
C27_ColoursByDepthOrder ==
  IsLayout(out) =>
    /\ \A i \in 1..Len(data) :
         (/\ \A j \in 1..Len(data) : data[i].depth <= data[j].depth
          /\ \A j \in 1..(i - 1) : data[j].depth # data[i].depth)
           => GetProperty(out.colorMap, data[i].rockComposition) = colors[1]
    /\ (/\ IsLayout(prevOut) /\ SameRecords(prevData, data)
        /\ DistinctDepths(data))
         => out.colorMap = prevOut.colorMap

\* the answers the provider p gave during the request
AnswersOf(p) ==
  {providerResults[i].answer : i \in {j \in 1..Len(providerResults) :
                                        providerResults[j].provider = p}}

\* the provider answered OK with a body the handler could use
YieldsReply(p) ==
  \E a \in AnswersOf(p) :
    a.fetched = "ok" /\ a.readable /\ (p = "openai" => a.choices)

\* C23: the chat endpoint selects providers in a fixed order.  When
\* GEMINI_API_KEY is set (a non-empty string) Gemini is called first and its
\* reply is returned on an OK response; OpenAI is called only if no Gemini
\* key is set or the Gemini call was not OK, and only when OPENAI_API_KEY is
\* set and starts with 'sk-'; when no provider yields a reply the endpoint
\* returns success:false with an error, never success:true without a message.
C23_ProviderOrder ==
  /\ providerCalls \in {<<>>, <<"gemini">>, <<"openai">>, <<"gemini", "openai">>}
  /\ (Truthy(geminiApiKey) /\ providerCalls # <<>>) => providerCalls[1] = "gemini"
  /\ (Truthy(geminiApiKey) /\ chatResponse = NoKeyConfigured)
       => providerCalls = <<"gemini">>
  /\ \A a \in AnswersOf("gemini") :
       (a.fetched = "ok" /\ a.readable) =>
         /\ serverPc = "done"
         /\ providerCalls = <<"gemini">>
         /\ chatResponse.success
         /\ chatResponse.message
              = (IF a.text \in {Undefined, ""} THEN "No response generated" ELSE a.text)
  /\ (\E i \in 1..Len(providerCalls) : providerCalls[i] = "openai") =>
       /\ \/ ~geminiApiKey.set \/ geminiApiKey.chars = <<>>
          \/ \E a \in AnswersOf("gemini") : a.fetched = "notok"
       /\ openaiApiKey.set
       /\ Len(openaiApiKey.chars) >= 3
       /\ <<openaiApiKey.chars[1], openaiApiKey.chars[2], openaiApiKey.chars[3]>>
            = <<"s", "k", "-">>
  /\ serverPc = "done" =>
       IF YieldsReply("gemini") \/ YieldsReply("openai")
       THEN chatResponse.success /\ chatResponse.message \notin {Undefined, ""}
       ELSE ~chatResponse.success /\ chatResponse.error \notin {Undefined, ""}

\* Gemini answered not OK and the reply of OpenAI was returned
C23_Witness ==
  /\ serverPc = "done"
  /\ providerCalls = <<"gemini", "openai">>
  /\ \E a \in AnswersOf("gemini") : a.fetched = "notok"
  /\ chatResponse = ReplyResponse("The interval is mostly shale.")

\* every well-data request of the App and of the WellDashboard has completed
NoDataFetchOutstanding ==
  \A w \in WellIds : appFetch[w] = 0 /\ dashFetch[w] = 0

\* C24: fetchWells auto-selects the first well of the list only if no well
\* is selected: once the user has selected a well, no later completion of a
\* fetchWells call changes selectedWellId.
C24_SelectionKept ==
  userSelected # 0 => selectedWellId = userSelected

\* C30: once all outstanding well-data fetches have completed, the well data
\* held by the WellDashboard and by the App both belong to the currently
\* selected well, or are null.
C30_DataOfSelectedWell ==
  NoDataFetchOutstanding =>
    /\ appWellData \in {0, selectedWellId}
    /\ dashWellData \in {0, selectedWellId}

\* the number of questions the user has had accepted
UserMessages == Cardinality({i \in 1..Len(messages) : messages[i].role = "user"})

\* a send attempted while loading is true or with blank input changes
\* neither the messages nor the requests in flight
RejectedSendDoesNothing ==
  (/\ attempts' = attempts + 1
   /\ chatLoading \/ \A i \in 1..Len(input) : input[i] = " ")
    => (messages' = messages /\ inFlight' = inFlight)

\* C28: in the chat components at most one chat request is in flight at any
\* time: a send attempted while loading is true, or with blank input,
\* appends no message and issues no request.
C28_OneRequestInFlight ==
  /\ [](inFlight <= 1)
  /\ [](chatLoading <=> inFlight = 1)
  /\ [][RejectedSendDoesNothing]_vars

\* a request is in flight and a send has been rejected
C28_Witness ==
  /\ chatLoading
  /\ inFlight = 1
  /\ attempts > UserMessages
  /\ \E i \in 1..Len(input) : input[i] # " "

\* every question is directly followed by exactly one assistant message,
\* except the last one while its request is in flight
OneAnswerPerQuestion ==
  /\ \A i \in 2..Len(messages) :
       messages[i].role = "assistant" => messages[i - 1].role = "user"
  /\ \A i \in 1..(Len(messages) - 1) :
       messages[i].role = "user" => messages[i + 1].role = "assistant"
  /\ chatLoading <=> messages[Len(messages)].role = "user"

\* C29: every accepted chat send eventually completes: whether the request
\* succeeds, returns an error or throws, exactly one assistant message (the
\* reply or an error message) is appended after the user's message and
\* loading returns to false.
C29_SendCompletes ==
  /\ []OneAnswerPerQuestion
  /\ chatLoading ~> ~chatLoading

\* a question answered by a reply and one answered by an error message
C29_Witness ==
  /\ ~chatLoading
  /\ OneAnswerPerQuestion
  /\ \E i \in 1..Len(messages) : messages[i].kind = "reply"
  /\ \E i \in 1..Len(messages) : messages[i].kind = "error"

====
